---- MODULE Spec2Model ----
(***************************************************************************)
(* Model of the Chord wire codec of morphis (chord_packet.py).             *)
(*                                                                         *)
(* A buffer is a sequence of bytes (0..255).  A message instance is a      *)
(* record [cls, packet_type, buf, f] where f holds the payload fields of   *)
(* the class.  Python's None / empty buffer are both the empty sequence    *)
(* (the code only ever tests `not buf`).                                   *)
(*                                                                         *)
(* The module sshtype is not part of the sources at hand; its four         *)
(* functions are modelled from the documented contract: 4-byte big-endian  *)
(* length prefix followed by the raw bytes (UTF-8 for strings), failing on *)
(* truncated input.                                                        *)
(***************************************************************************)
EXTENDS Integers, Sequences, FiniteSets, TLC

VARIABLES phase, obj, ret, src, wire, rxcls, rx, ret2

vars == <<phase, obj, ret, src, wire, rxcls, rx, ret2>>

\* ------------------------------------------------------------------ bounds
MaxPeers == 2
MaxPackets == 2

\* --------------------------------------------------------------- constants
CHORD_MSG_RELAY == 100
CHORD_MSG_NODE_INFO == 110
CHORD_MSG_GET_PEERS == 115
CHORD_MSG_PEER_LIST == 120
CHORD_MSG_FIND_NODE == 150
CHORD_MSG_GET_DATA == 160
CHORD_MSG_DATA_RESPONSE == 162
CHORD_MSG_DATA_PRESENCE == 165
CHORD_MSG_STORE_DATA == 170
CHORD_MSG_DATA_STORED == 172
CHORD_MSG_STORAGE_INTEREST == 175

Classes ==
  {"Relay", "NodeInfo", "GetPeers", "PeerList", "FindNode", "GetData",
   "DataResponse", "DataPresence", "StoreData", "DataStored",
   "StorageInterest"}

BoolClasses == {"DataPresence", "DataStored", "StorageInterest"}

\* The packet_type each subclass hands to ChordMessage.__init__.
Tag(cls) ==
  CASE cls = "Relay" -> CHORD_MSG_RELAY
    [] cls = "NodeInfo" -> CHORD_MSG_NODE_INFO
    [] cls = "GetPeers" -> CHORD_MSG_GET_PEERS
    [] cls = "PeerList" -> CHORD_MSG_PEER_LIST
    [] cls = "FindNode" -> CHORD_MSG_FIND_NODE
    [] cls = "GetData" -> CHORD_MSG_GET_DATA
    [] cls = "DataResponse" -> CHORD_MSG_DATA_RESPONSE
    [] cls = "DataPresence" -> CHORD_MSG_DATA_PRESENCE
    [] cls = "StoreData" -> CHORD_MSG_STORE_DATA
    [] cls = "DataStored" -> CHORD_MSG_DATA_STORED
    [] cls = "StorageInterest" -> CHORD_MSG_STORAGE_INTEREST

\* DataMode members; a Python value is a record [type, value] so that an
\* enum member and a bool are different values.
DataMode(name) ==
  [type |-> "DataMode",
   value |-> CASE name = "none" -> 0 [] name = "get" -> 10 [] name = "store" -> 20]

DataModeNames == {"none", "get", "store"}

PyBool(b) == [type |-> "bool", value |-> IF b THEN 1 ELSE 0]

\* Truth value of a Python object as struct.pack("?") takes it: a bool by
\* its value, an Enum member always true.
Truthy(x) == IF x.type = "bool" THEN x.value # 0 ELSE TRUE

\* ------------------------------------------------------------------ errors
NoErr == "none"
StructError == "struct.error"
TruncatedInput == "TruncatedInput"
UnicodeDecodeError == "UnicodeDecodeError"
AssertionError == "AssertionError"
ChordException == "ChordException"

\* ------------------------------------------------------------ struct, bytes
Min(a, b) == IF a < b THEN a ELSE b

\* Python slice buf[i:j] (0-based, silently clipped to the buffer).
Slice(buf, i, j) == SubSeq(buf, i + 1, Min(j, Len(buf)))

\* Python slice buf[i:].
From(buf, i) == SubSeq(buf, i + 1, Len(buf))

\* struct.pack("B", n)
PackB(n) == <<n>>

\* struct.unpack("B", s)[0]
UnpackB(s) ==
  IF Len(s) # 1 THEN [err |-> StructError, val |-> 0]
  ELSE [err |-> NoErr, val |-> s[1]]

\* struct.pack(">L", n)
PackL(n) ==
  <<(n \div 16777216) % 256, (n \div 65536) % 256, (n \div 256) % 256, n % 256>>

\* struct.unpack(">L", s)[0]
UnpackL(s) ==
  IF Len(s) # 4 THEN [err |-> StructError, val |-> 0]
  ELSE [err |-> NoErr,
        val |-> s[1] * 16777216 + s[2] * 65536 + s[3] * 256 + s[4]]

\* struct.pack("?", b)
PackBool(b) == <<IF b THEN 1 ELSE 0>>

UnpackBool_one(s) ==
  IF Len(s) # 1 THEN [err |-> StructError, val |-> FALSE]
  ELSE [err |-> NoErr, val |-> s[1] = 1]

\* struct.unpack("?", s)[0]
UnpackBool(s) ==
  IF Len(s) # 1 THEN [err |-> StructError, val |-> FALSE]
  ELSE [err |-> NoErr, val |-> s[1] # 0]

\* ----------------------------------------------------------------- sshtype
RECURSIVE Utf8Encode(_)
\* str.encode(): code points below 0x800 only.
Utf8Encode(s) ==
  IF s = <<>> THEN <<>>
  ELSE LET c == Head(s) IN
       (IF c < 128 THEN <<c>> ELSE <<192 + (c \div 64), 128 + (c % 64)>>)
         \o Utf8Encode(Tail(s))

RECURSIVE Utf8Decode(_)
\* bytes.decode(): [err, val]; rejects stray continuation bytes, overlong
\* forms and sequences cut short.
Utf8Decode(b) ==
  IF b = <<>> THEN [err |-> NoErr, val |-> <<>>]
  ELSE IF b[1] < 128 THEN
         LET r == Utf8Decode(Tail(b)) IN
         IF r.err # NoErr THEN r ELSE [err |-> NoErr, val |-> <<b[1]>> \o r.val]
  ELSE IF b[1] >= 194 /\ b[1] <= 223 /\ Len(b) >= 2 /\ b[2] >= 128 /\ b[2] <= 191 THEN
         LET r == Utf8Decode(Tail(Tail(b))) IN
         IF r.err # NoErr THEN r
         ELSE [err |-> NoErr, val |-> <<(b[1] - 192) * 64 + (b[2] - 128)>> \o r.val]
  ELSE [err |-> UnicodeDecodeError, val |-> <<>>]

encodeBinary(b) == PackL(Len(b)) \o b

\* (consumed length, value), or a truncated-input error.
parseBinary(buf) ==
  IF Len(buf) < 4 THEN [err |-> TruncatedInput, l |-> 0, val |-> <<>>]
  ELSE LET n == UnpackL(Slice(buf, 0, 4)).val IN
       IF Len(buf) < 4 + n THEN [err |-> TruncatedInput, l |-> 0, val |-> <<>>]
       ELSE [err |-> NoErr, l |-> 4 + n, val |-> Slice(buf, 4, 4 + n)]

encodeString(s) == encodeBinary(Utf8Encode(s))

parseString(buf) ==
  LET r == parseBinary(buf) IN
  IF r.err # NoErr THEN r
  ELSE LET d == Utf8Decode(r.val) IN
       IF d.err # NoErr THEN [err |-> d.err, l |-> 0, val |-> <<>>]
       ELSE [err |-> NoErr, l |-> r.l, val |-> d.val]

\* ------------------------------------------------------------------ encode
\* State of one encode() call: nbuf is the bytearray being built, buf is the
\* instance's self.buf, alias says that both names denote the same bytearray
\* object, err is the exception raised (if any).
ChordMessage_encode_mask7(self) ==
  [nbuf |-> PackB(self.packet_type % 128),
   buf |-> PackB(self.packet_type % 128), alias |-> TRUE, err |-> NoErr]

ChordMessage_encode_copy(self) ==
  [nbuf |-> PackB(self.packet_type % 256),
   buf |-> PackB(self.packet_type % 256), alias |-> FALSE, err |-> NoErr]

\* ChordMessage.encode: a fresh bytearray holding the tag byte, stored in
\* self.buf and returned (one object under two names).
ChordMessage_encode(self) ==
  [nbuf |-> PackB(self.packet_type % 256),
   buf |-> PackB(self.packet_type % 256), alias |-> TRUE, err |-> NoErr]

\* nbuf += bytes: bytearray.__iadd__ extends the object in place, so every
\* name bound to it sees the new bytes.
IAdd(e, bytes) ==
  IF e.err # NoErr THEN e
  ELSE [e EXCEPT !.nbuf = @ \o bytes,
                 !.buf = IF e.alias THEN e.nbuf \o bytes ELSE @]

RECURSIVE EncodePackets(_, _)
\* for packet in self.packets: nbuf += sshtype.encodeBinary(packet)
EncodePackets(e, packets) ==
  IF packets = <<>> THEN e
  ELSE EncodePackets(IAdd(e, encodeBinary(Head(packets))), Tail(packets))

ChordRelay_encode(self) ==
  EncodePackets(
    IAdd(IAdd(ChordMessage_encode(self), PackL(self.f.index)),
         PackL(Len(self.f.packets))),
    self.f.packets)

ChordNodeInfo_encode(self) ==
  IAdd(ChordMessage_encode(self), encodeString(self.f.sender_address))

ChordGetPeers_encode(self) ==
  IAdd(ChordMessage_encode(self), PackL(self.f.sender_port))

EncodePeerKey_skip(e, peer) ==
  IF peer.kind = "mnpeer.Peer" THEN e
  ELSE IF peer.kind # "db.Peer" THEN [e EXCEPT !.err = AssertionError]
  ELSE IAdd(e, encodeBinary(peer.key))

\* The type dispatch on one peer: a peer.Peer contributes
\* node_key.asbytes() (field key of the model), a db.Peer its pubkey (field
\* key), anything else trips the assert.
EncodePeerKey(e, peer) ==
  IF peer.kind = "mnpeer.Peer" THEN IAdd(e, encodeBinary(peer.key))
  ELSE IF peer.kind # "db.Peer" THEN [e EXCEPT !.err = AssertionError]
  ELSE IAdd(e, encodeBinary(peer.key))

RECURSIVE EncodePeers(_, _)
\* for peer in self.peers: ... ; an exception ends the loop.
EncodePeers(e, peers) ==
  IF peers = <<>> \/ e.err # NoErr THEN e
  ELSE LET peer == Head(peers)
           e1 == IAdd(e, encodeString(peer.address))
           e2 == IAdd(e1, encodeBinary(peer.node_id))
       IN EncodePeers(EncodePeerKey(e2, peer), Tail(peers))

ChordPeerList_encode(self) ==
  EncodePeers(IAdd(ChordMessage_encode(self), PackL(Len(self.f.peers))),
              self.f.peers)

ChordFindNode_encode(self) ==
  IAdd(IAdd(ChordMessage_encode(self), encodeBinary(self.f.node_id)),
       PackBool(Truthy(self.f.data_mode)))

ChordGetData_encode(self) ==
  IAdd(ChordMessage_encode(self), encodeBinary(self.f.data_id))

ChordDataResponse_encode(self) ==
  IAdd(IAdd(ChordMessage_encode(self), encodeBinary(self.f.data_id)),
       encodeBinary(self.f.data))

ChordDataPresence_encode(self) ==
  IAdd(ChordMessage_encode(self), PackBool(self.f.data_present))

ChordStoreData_encode(self) ==
  IAdd(IAdd(ChordMessage_encode(self), encodeBinary(self.f.data_id)),
       encodeBinary(self.f.data))

ChordDataStored_encode(self) ==
  IAdd(ChordMessage_encode(self), PackBool(self.f.stored))

ChordStorageInterest_encode(self) ==
  IAdd(ChordMessage_encode(self), PackBool(self.f.will_store))

\* self.encode(), by the class of self.
Encode(self) ==
  CASE self.cls = "Relay" -> ChordRelay_encode(self)
    [] self.cls = "NodeInfo" -> ChordNodeInfo_encode(self)
    [] self.cls = "GetPeers" -> ChordGetPeers_encode(self)
    [] self.cls = "PeerList" -> ChordPeerList_encode(self)
    [] self.cls = "FindNode" -> ChordFindNode_encode(self)
    [] self.cls = "GetData" -> ChordGetData_encode(self)
    [] self.cls = "DataResponse" -> ChordDataResponse_encode(self)
    [] self.cls = "DataPresence" -> ChordDataPresence_encode(self)
    [] self.cls = "StoreData" -> ChordStoreData_encode(self)
    [] self.cls = "DataStored" -> ChordDataStored_encode(self)
    [] self.cls = "StorageInterest" -> ChordStorageInterest_encode(self)

\* ------------------------------------------------------------------- parse
\* A parse() call yields [err, packet_type, f]: the exception raised, or the
\* attributes it assigned.
Raise(err) == [err |-> err, packet_type |-> 0, f |-> [none |-> TRUE]]

Parsed(t, f) == [err |-> NoErr, packet_type |-> t, f |-> f]

\* ChordMessage.parse
ChordMessage_parse(buf) == UnpackB(Slice(buf, 0, 1))

ChordMessage_parse_type(buf) == UnpackB(Slice(buf, 0, 1))

RECURSIVE ParsePackets(_, _, _, _)
\* for n in range(cnt): l, packet = parseBinary(buf[i:]); i += l; append
ParsePackets(buf, i, n, acc) ==
  IF n = 0 THEN [err |-> NoErr, val |-> acc]
  ELSE LET r == parseBinary(From(buf, i)) IN
       IF r.err # NoErr THEN [err |-> r.err, val |-> acc]
       ELSE ParsePackets(buf, i + r.l, n - 1, Append(acc, r.val))

ChordRelay_parse(buf) ==
  LET t == ChordMessage_parse(buf)
      index == UnpackL(Slice(buf, 1, 5))
      cnt == UnpackL(Slice(buf, 5, 9))
  IN IF t.err # NoErr THEN Raise(t.err)
     ELSE IF index.err # NoErr THEN Raise(index.err)
     ELSE IF cnt.err # NoErr THEN Raise(cnt.err)
     ELSE LET ps == ParsePackets(buf, 9, cnt.val, <<>>) IN
          IF ps.err # NoErr THEN Raise(ps.err)
          ELSE Parsed(t.val, [index |-> index.val, packets |-> ps.val])

ChordNodeInfo_parse(buf) ==
  LET t == ChordMessage_parse(buf)
      s == parseString(From(buf, 1))
  IN IF t.err # NoErr THEN Raise(t.err)
     ELSE IF s.err # NoErr THEN Raise(s.err)
     ELSE Parsed(t.val, [sender_address |-> s.val])

ChordGetPeers_parse(buf) ==
  LET t == ChordMessage_parse(buf)
      port == UnpackL(Slice(buf, 1, 5))
  IN IF t.err # NoErr THEN Raise(t.err)
     ELSE IF port.err # NoErr THEN Raise(port.err)
     ELSE Parsed(t.val, [sender_port |-> port.val])

RECURSIVE ParsePeers(_, _, _, _)
\* for n in range(pcnt): a db.Peer from three length-prefixed fields
ParsePeers(buf, i, n, acc) ==
  IF n = 0 THEN [err |-> NoErr, val |-> acc]
  ELSE LET a == parseString(From(buf, i)) IN
       IF a.err # NoErr THEN [err |-> a.err, val |-> acc]
       ELSE LET nid == parseBinary(From(buf, i + a.l)) IN
       IF nid.err # NoErr THEN [err |-> nid.err, val |-> acc]
       ELSE LET pk == parseBinary(From(buf, i + a.l + nid.l)) IN
       IF pk.err # NoErr THEN [err |-> pk.err, val |-> acc]
       ELSE ParsePeers(buf, i + a.l + nid.l + pk.l, n - 1,
                       Append(acc, [kind |-> "db.Peer", address |-> a.val,
                                    node_id |-> nid.val, key |-> pk.val]))

ChordPeerList_parse(buf) ==
  LET t == ChordMessage_parse(buf)
      pcnt == UnpackL(Slice(buf, 1, 5))
  IN IF t.err # NoErr THEN Raise(t.err)
     ELSE IF pcnt.err # NoErr THEN Raise(pcnt.err)
     ELSE LET ps == ParsePeers(buf, 5, pcnt.val, <<>>) IN
          IF ps.err # NoErr THEN Raise(ps.err)
          ELSE Parsed(t.val, [peers |-> ps.val])

ChordFindNode_parse(buf) ==
  LET t == ChordMessage_parse(buf)
      nid == parseBinary(From(buf, 1))
  IN IF t.err # NoErr THEN Raise(t.err)
     ELSE IF nid.err # NoErr THEN Raise(nid.err)
     ELSE LET dm == UnpackBool(Slice(buf, 1 + nid.l, 1 + nid.l + 1)) IN
          IF dm.err # NoErr THEN Raise(dm.err)
          ELSE Parsed(t.val, [node_id |-> nid.val, data_mode |-> PyBool(dm.val)])

ChordGetData_parse(buf) ==
  LET t == ChordMessage_parse(buf)
      did == parseBinary(From(buf, 1))
  IN IF t.err # NoErr THEN Raise(t.err)
     ELSE IF did.err # NoErr THEN Raise(did.err)
     ELSE Parsed(t.val, [data_id |-> did.val])

ChordDataResponse_parse(buf) ==
  LET t == ChordMessage_parse(buf)
      did == parseBinary(From(buf, 1))
  IN IF t.err # NoErr THEN Raise(t.err)
     ELSE IF did.err # NoErr THEN Raise(did.err)
     ELSE LET d == parseBinary(From(buf, 1 + did.l)) IN
          IF d.err # NoErr THEN Raise(d.err)
          ELSE Parsed(t.val, [data_id |-> did.val, data |-> d.val])

ChordDataPresence_parse(buf) ==
  LET t == ChordMessage_parse(buf)
      b == UnpackBool(Slice(buf, 1, 2))
  IN IF t.err # NoErr THEN Raise(t.err)
     ELSE IF b.err # NoErr THEN Raise(b.err)
     ELSE Parsed(t.val, [data_present |-> b.val])

ChordStoreData_parse(buf) ==
  LET t == ChordMessage_parse(buf)
      did == parseBinary(From(buf, 1))
  IN IF t.err # NoErr THEN Raise(t.err)
     ELSE IF did.err # NoErr THEN Raise(did.err)
     ELSE LET d == parseBinary(From(buf, 1 + did.l)) IN
          IF d.err # NoErr THEN Raise(d.err)
          ELSE Parsed(t.val, [data_id |-> did.val, data |-> d.val])

ChordDataStored_parse(buf) ==
  LET t == ChordMessage_parse(buf)
      b == UnpackBool(Slice(buf, 1, 2))
  IN IF t.err # NoErr THEN Raise(t.err)
     ELSE IF b.err # NoErr THEN Raise(b.err)
     ELSE Parsed(t.val, [stored |-> b.val])

ChordStorageInterest_parse(buf) ==
  LET t == ChordMessage_parse(buf)
      b == UnpackBool(Slice(buf, 1, 2))
  IN IF t.err # NoErr THEN Raise(t.err)
     ELSE IF b.err # NoErr THEN Raise(b.err)
     ELSE Parsed(t.val, [will_store |-> b.val])

\* self.parse(), by the class of self.
Parse(cls, buf) ==
  CASE cls = "Relay" -> ChordRelay_parse(buf)
    [] cls = "NodeInfo" -> ChordNodeInfo_parse(buf)
    [] cls = "GetPeers" -> ChordGetPeers_parse(buf)
    [] cls = "PeerList" -> ChordPeerList_parse(buf)
    [] cls = "FindNode" -> ChordFindNode_parse(buf)
    [] cls = "GetData" -> ChordGetData_parse(buf)
    [] cls = "DataResponse" -> ChordDataResponse_parse(buf)
    [] cls = "DataPresence" -> ChordDataPresence_parse(buf)
    [] cls = "StoreData" -> ChordStoreData_parse(buf)
    [] cls = "DataStored" -> ChordDataStored_parse(buf)
    [] cls = "StorageInterest" -> ChordStorageInterest_parse(buf)

\* ------------------------------------------------------------- constructor
\* None is modelled by the string "None".
None == "None"

\* The attribute values each subclass __init__ sets before calling
\* ChordMessage.__init__ (peers is only set from the argument, default None).
Defaults(cls) ==
  CASE cls = "Relay" -> [index |-> None, packets |-> None]
    [] cls = "NodeInfo" -> [sender_address |-> <<>>]
    [] cls = "GetPeers" -> [sender_port |-> None]
    [] cls = "PeerList" -> [peers |-> None]
    [] cls = "FindNode" -> [node_id |-> None, data_mode |-> DataMode("none")]
    [] cls = "GetData" -> [data_id |-> None]
    [] cls = "DataResponse" -> [data_id |-> None, data |-> None]
    [] cls = "DataPresence" -> [data_present |-> FALSE]
    [] cls = "StoreData" -> [data_id |-> None, data |-> None]
    [] cls = "DataStored" -> [stored |-> FALSE]
    [] cls = "StorageInterest" -> [will_store |-> FALSE]

\* An instance built in encode mode and then given its payload fields.
Instance(cls, f) == [cls |-> cls, packet_type |-> Tag(cls), buf |-> <<>>, f |-> f]

\* cls(buf): ChordMessage.__init__ behind the subclass __init__.  Yields
\* [err, obj]; obj is meaningful only when err is NoErr.
Construct(cls, buf) ==
  IF buf = <<>> THEN [err |-> NoErr, obj |-> Instance(cls, Defaults(cls))]
  ELSE LET p == Parse(cls, buf) IN
       IF p.err # NoErr THEN [err |-> p.err, obj |-> Instance(cls, Defaults(cls))]
       ELSE IF Tag(cls) # 0 /\ p.packet_type # Tag(cls)
            THEN [err |-> ChordException, obj |-> Instance(cls, Defaults(cls))]
            ELSE [err |-> NoErr,
                  obj |-> [cls |-> cls, packet_type |-> p.packet_type,
                           buf |-> buf, f |-> p.f]]

\* ------------------------------------------------------------ input domains
\* Sequences over S of length at most n.
SeqUpTo(S, n) == UNION {[1..k -> S] : k \in 0..n}

\* Opaque blobs (node_id, data_id, data, keys), the empty one included.
BlobPool == {<<>>, <<7>>, <<0, 255>>}

\* Strings as sequences of code points, the empty one and a non-ASCII one
\* included.
StringPool == {<<>>, <<97>>, <<233, 98>>}

\* Unsigned 32-bit values (kept below 2^31).
U32Pool == {0, 7, 4000, 16909060}

PeerKinds == {"mnpeer.Peer", "db.Peer", "other"}

PeerPool ==
  [kind : PeerKinds, address : {<<>>, <<97>>}, node_id : {<<7>>},
   key : {<<>>, <<0, 255>>}]

\* Messages a relay may carry, already encoded by their senders.
InnerMsgs ==
  {Instance("GetPeers", [sender_port |-> 4000]),
   Instance("FindNode", [node_id |-> <<7>>, data_mode |-> DataMode("get")]),
   Instance("DataPresence", [data_present |-> TRUE])}

PoolMsgs ==
  InnerMsgs \cup
    {Instance("Relay", [index |-> 1, packets |-> <<Encode(m).nbuf>>]) : m \in InnerMsgs}

PacketPool == {Encode(m).nbuf : m \in PoolMsgs}

\* Payloads of a class within the declared domains of its fields.
Payloads(cls) ==
  CASE cls = "Relay" -> [index : U32Pool, packets : SeqUpTo(PacketPool, MaxPackets)]
    [] cls = "NodeInfo" -> [sender_address : StringPool]
    [] cls = "GetPeers" -> [sender_port : U32Pool]
    [] cls = "PeerList" -> [peers : SeqUpTo(PeerPool, MaxPeers)]
    [] cls = "FindNode" ->
         [node_id : BlobPool, data_mode : {DataMode(n) : n \in DataModeNames}]
    [] cls = "GetData" -> [data_id : BlobPool]
    [] cls = "DataResponse" -> [data_id : BlobPool, data : BlobPool]
    [] cls = "DataPresence" -> [data_present : BOOLEAN]
    [] cls = "StoreData" -> [data_id : BlobPool, data : BlobPool]
    [] cls = "DataStored" -> [stored : BOOLEAN]
    [] cls = "StorageInterest" -> [will_store : BOOLEAN]

\* ----------------------------------------------------------- state machine
NoObj == [cls |-> "none", packet_type |-> 0, buf |-> <<>>, f |-> [none |-> TRUE]]

NoRet == [err |-> "unset", buf |-> <<>>]

NoRx == [err |-> "unset", obj |-> NoObj]

Init ==
  /\ phase = "idle"
  /\ obj = NoObj
  /\ ret = NoRet
  /\ src = "none"
  /\ wire = <<>>
  /\ rxcls = "none"
  /\ rx = NoRx
  /\ ret2 = NoRet

\* A caller builds an instance in encode mode and sets its payload fields.
New ==
  /\ phase = "idle"
  /\ \E cls \in Classes : \E f \in Payloads(cls) : obj' = Instance(cls, f)
  /\ phase' = "built"
  /\ UNCHANGED <<ret, src, wire, rxcls, rx, ret2>>

\* obj.encode(): the returned buffer (or the exception) and the new self.buf.
DoEncode ==
  /\ phase = "built"
  /\ LET e == Encode(obj) IN
       /\ obj' = [obj EXCEPT !.buf = e.buf]
       /\ ret' = [err |-> e.err, buf |-> IF e.err = NoErr THEN e.nbuf ELSE <<>>]
  /\ phase' = "encoded"
  /\ UNCHANGED <<src, wire, rxcls, rx, ret2>>

\* The receiver constructs the sender's class from the first k bytes of the
\* encoded buffer (k = its length: the whole buffer).
ParseSame ==
  /\ phase = "encoded"
  /\ ret.err = NoErr
  /\ \E k \in 0..Len(ret.buf) :
       /\ wire' = SubSeq(ret.buf, 1, k)
       /\ rx' = Construct(obj.cls, SubSeq(ret.buf, 1, k))
  /\ rxcls' = obj.cls
  /\ src' = "encoded"
  /\ phase' = "parsed"
  /\ UNCHANGED <<obj, ret, ret2>>

\* The receiver constructs another class from the whole encoded buffer.
ParseOther ==
  /\ phase = "encoded"
  /\ ret.err = NoErr
  /\ \E cls \in Classes \ {obj.cls} :
       /\ rxcls' = cls
       /\ rx' = Construct(cls, ret.buf)
  /\ wire' = ret.buf
  /\ src' = "encoded"
  /\ phase' = "parsed"
  /\ UNCHANGED <<obj, ret, ret2>>

\* The receiver is handed a two-byte buffer of a boolean variant whose field
\* byte is arbitrary (a peer need not have produced it with this encoder).
ParseForeign ==
  /\ phase = "idle"
  /\ \E cls \in BoolClasses : \E b \in 0..255 :
       /\ wire' = <<Tag(cls), b>>
       /\ rxcls' = cls
       /\ rx' = Construct(cls, <<Tag(cls), b>>)
  /\ src' = "foreign"
  /\ phase' = "parsed"
  /\ UNCHANGED <<obj, ret, ret2>>

\* encode() on the instance that parsing returned.
ReEncode ==
  /\ phase = "parsed"
  /\ rx.err = NoErr
  /\ wire # <<>>
  /\ LET e == Encode(rx.obj) IN
       /\ rx' = [rx EXCEPT !.obj.buf = e.buf]
       /\ ret2' = [err |-> e.err, buf |-> IF e.err = NoErr THEN e.nbuf ELSE <<>>]
  /\ phase' = "reencoded"
  /\ UNCHANGED <<obj, ret, src, wire, rxcls>>

Next == New \/ DoEncode \/ ParseSame \/ ParseOther \/ ParseForeign \/ ReEncode

Spec == Init /\ [][Next]_vars

\* ------------------------------------------------------------------ claims
\* The receiver parsed the whole buffer the sender's encode() returned.
WholeBuffer == src = "encoded" /\ wire = ret.buf

\* The three wire fields of a peer, whichever representation holds them.
PeerFields(p) == <<p.address, p.node_id, p.key>>

\* Payload fields of b equal those of a (peers compared field by field, as
\* parsing always yields directory peers).
SameFields(a, b) ==
  IF a.cls = "PeerList"
  THEN /\ Len(a.f.peers) = Len(b.f.peers)
       /\ \A i \in 1..Len(a.f.peers) :
            PeerFields(a.f.peers[i]) = PeerFields(b.f.peers[i])
  ELSE a.f = b.f

IsSuffix(s, t) == Len(s) <= Len(t) /\ SubSeq(t, Len(t) - Len(s) + 1, Len(t)) = s

Supported(p) == p.kind \in {"mnpeer.Peer", "db.Peer"}

\* The value of the one boolean field of a boolean variant.
BoolField(o) ==
  CASE o.cls = "DataPresence" -> o.f.data_present
    [] o.cls = "DataStored" -> o.f.stored
    [] o.cls = "StorageInterest" -> o.f.will_store

\* C1 (round trip): constructing a variant from the buffer its encode()
\* returned yields an instance whose payload fields equal the original ones.
C1_RoundTrip ==
  (phase = "parsed" /\ WholeBuffer /\ rxcls = obj.cls)
    => (rx.err = NoErr /\ SameFields(obj, rx.obj))

\* C2 (type mismatch): constructing a different variant from a valid encoded
\* buffer fails with the type-mismatch ChordException and with nothing else.
C2_TypeMismatch ==
  (phase = "parsed" /\ WholeBuffer /\ rxcls # obj.cls)
    => rx.err = ChordException

\* C3 (truncation): constructing the variant from any strict prefix of its
\* encoded buffer fails with a truncated-input error, never yields an
\* instance.
C3_Truncation ==
  (phase = "parsed" /\ src = "encoded" /\ rxcls = obj.cls
     /\ Len(wire) < Len(ret.buf))
    => rx.err \in {StructError, TruncatedInput}

\* The registry of the specification, tag by variant.
RegistryTag(cls) ==
  CASE cls = "Relay" -> 100
    [] cls = "NodeInfo" -> 110
    [] cls = "GetPeers" -> 115
    [] cls = "PeerList" -> 120
    [] cls = "FindNode" -> 150
    [] cls = "GetData" -> 160
    [] cls = "DataResponse" -> 162
    [] cls = "DataPresence" -> 165
    [] cls = "StoreData" -> 170
    [] cls = "DataStored" -> 172
    [] cls = "StorageInterest" -> 175

\* C4 (tag integrity): the first byte of the buffer encode() returns is the
\* registry tag of the variant, and parse_type of that buffer returns it.
C4_TagIntegrity ==
  (phase = "encoded" /\ ret.err = NoErr)
    => /\ ret.buf[1] = RegistryTag(obj.cls)
       /\ ChordMessage_parse_type(ret.buf) =
            [err |-> NoErr, val |-> RegistryTag(obj.cls)]

C4_Witness ==
  /\ phase = "encoded"
  /\ obj.cls = "DataResponse"
  /\ ret.err = NoErr
  /\ ret.buf[1] = 162
  /\ Len(ret.buf) > 9

\* C5 (relay nesting): parsing an encoded relay yields the same index and
\* the same packets, byte for byte and in order, and each packet parsed as
\* its own variant yields the field values of the message it was encoded
\* from.
C5_RelayNesting ==
  (phase = "parsed" /\ WholeBuffer /\ obj.cls = "Relay" /\ rxcls = "Relay")
    => /\ rx.err = NoErr
       /\ rx.obj.f.index = obj.f.index
       /\ rx.obj.f.packets = obj.f.packets
       /\ \A i \in 1..Len(obj.f.packets) : \A m \in PoolMsgs :
            Encode(m).nbuf = obj.f.packets[i]
              => LET d == Construct(m.cls, rx.obj.f.packets[i]) IN
                 d.err = NoErr /\ SameFields(m, d.obj)

\* The peers of a list as directory peers holding the same three fields.
AsDirectory(peers) ==
  [i \in 1..Len(peers) |-> [peers[i] EXCEPT !.kind = "db.Peer"]]

\* C6 (peer adapter equivalence): a peer list encodes to the same bytes as
\* the list in which every managed peer is replaced by a directory peer with
\* the same address, node_id and public-key bytes.
C6_PeerAdapter ==
  (phase = "encoded" /\ obj.cls = "PeerList"
     /\ \A i \in 1..Len(obj.f.peers) : Supported(obj.f.peers[i]))
    => /\ ret.err = NoErr
       /\ ret.buf =
            Encode(Instance("PeerList", [peers |-> AsDirectory(obj.f.peers)])).nbuf

C6_Witness ==
  /\ phase = "encoded"
  /\ obj.cls = "PeerList"
  /\ Len(obj.f.peers) = 2
  /\ obj.f.peers[1].kind = "db.Peer"
  /\ obj.f.peers[2].kind = "mnpeer.Peer"
  /\ obj.f.peers[2].key = <<0, 255>>
  /\ ret.err = NoErr
  /\ IsSuffix(<<0, 0, 0, 2, 0, 255>>, ret.buf)

\* C7 (data_mode): the trailing byte of an encoded FindNode differs between
\* none, get and store, and parsing yields the data_mode that was encoded.
C7_DataMode ==
  (phase = "parsed" /\ WholeBuffer /\ obj.cls = "FindNode" /\ rxcls = "FindNode")
    => /\ rx.err = NoErr
       /\ rx.obj.f.data_mode = obj.f.data_mode
       /\ \A n \in DataModeNames :
            DataMode(n) # obj.f.data_mode
              => LET other ==
                       Encode(Instance("FindNode",
                                [obj.f EXCEPT !.data_mode = DataMode(n)])).nbuf
                 IN other[Len(other)] # ret.buf[Len(ret.buf)]

\* C8 (unsupported peer): encode() of a list holding a peer that is neither
\* a managed nor a directory peer raises the assertion error, returns no
\* buffer and leaves no partial peer record (address and node_id without a
\* pubkey) at the end of the instance's buf.
C8_UnsupportedPeer ==
  (phase = "encoded" /\ obj.cls = "PeerList")
    => \A i \in 1..Len(obj.f.peers) :
         (~Supported(obj.f.peers[i])
            /\ \A j \in 1..(i - 1) : Supported(obj.f.peers[j]))
           => /\ ret.err = AssertionError
              /\ ret.buf = <<>>
              /\ ~IsSuffix(encodeString(obj.f.peers[i].address)
                             \o encodeBinary(obj.f.peers[i].node_id), obj.buf)

\* C9 (boolean canonicalisation): a boolean field byte 0x01..0xFF parses to
\* true and 0x00 to false, and encoding an instance parsed as true writes
\* the byte 0x01.
C9_BoolCanonical ==
  (src = "foreign" /\ phase \in {"parsed", "reencoded"})
    => /\ rx.err = NoErr
       /\ BoolField(rx.obj) = (wire[2] # 0)
       /\ (phase = "reencoded" /\ BoolField(rx.obj))
            => (ret2.err = NoErr /\ ret2.buf = <<Tag(rxcls), 1>>)
       /\ (phase = "reencoded" /\ ~BoolField(rx.obj))
            => (ret2.err = NoErr /\ ret2.buf = <<Tag(rxcls), 0>>)

C9_Witness ==
  /\ phase = "reencoded"
  /\ src = "foreign"
  /\ rxcls = "DataStored"
  /\ wire = <<172, 255>>
  /\ rx.obj.f.stored
  /\ ret2.buf = <<172, 1>>

\* C10 (re-encode stability): parsing a buffer that encode() produced
\* succeeds, encode() on the parsed instance returns the same bytes, and the
\* instance's buf is then that whole buffer.
C10_ReEncode ==
  /\ (phase = "parsed" /\ WholeBuffer /\ rxcls = obj.cls) => rx.err = NoErr
  /\ (phase = "reencoded" /\ WholeBuffer /\ rxcls = obj.cls)
       => /\ ret2.err = NoErr
          /\ ret2.buf = ret.buf
          /\ rx.obj.buf = ret2.buf

C10_Witness ==
  /\ phase = "reencoded"
  /\ WholeBuffer
  /\ obj.cls = "PeerList"
  /\ Len(obj.f.peers) = 2
  /\ obj.f.peers[1].kind = "mnpeer.Peer"
  /\ obj.f.peers[1].address = <<97>>
  /\ ret2.buf = ret.buf
  /\ rx.obj.buf = ret.buf
  /\ Len(rx.obj.buf) > 20

====
